---- MODULE Spec2Model ----
(***************************************************************************)
(* A model of nx: the piece ranger (Torrent.get_piece_refs), the          *)
(* checksummed record store (Store, load, Repo) and the piece             *)
(* verification engine (verify_pieces with DefaultFileReader).            *)
(*                                                                         *)
(* The three subsystems are independent in the code, so each gets its own *)
(* specification over the shared variables: SpecRanger, SpecStore, Spec   *)
(* (the Repo), SpecVerify and SpecCache (the file reader on its own).     *)
(* A specification leaves the variables of the other subsystems at their  *)
(* idle values.                                                            *)
(***************************************************************************)
EXTENDS Integers, Sequences, FiniteSets, TLC

VARIABLES
    files,          \* Torrent.files: sequence of File records
    piece_length,   \* torrent.info.piece_length()
    strip,          \* the strip_components argument
    fsx,            \* what is on disk at each file's resolved path
    vpc,            \* where verify_pieces is: "idle", "scan", "done", "raised"
    piece_idx,      \* the loop variable of verify_pieces
    bad_pc,         \* verify_pieces: bad piece count
    bad_sz,         \* verify_pieces: bad byte count
    reader,         \* the DefaultFileReader of the call
    hashed,         \* the piece indices hashed so far, in order
    bytes_read,     \* bytes read from disk so far
    ret,            \* what verify_pieces returned or raised
    matched,        \* verify_pieces: match_files, the MatchFilesResult
    buf,            \* verify_pieces: buf, the bytes put together for a piece
    rd_call,        \* the last DefaultFileReader.read call and the calls so far
    call,           \* arguments of the last get_piece_refs call
    refs,           \* records emitted by the last get_piece_refs call
    entries,        \* Repo.store.entries (the in-memory entry list)
    checksum,       \* Repo.checksum (the last-known checksum)
    disk,           \* the store file at Repo.path
    session,        \* whether a Store / Repo object is live ("closed" / "open")
    muts,           \* mutations of the entry list since the load / last write
    op              \* the last store operation and how it ended

torrentVars == <<files, piece_length, strip>>
verifyVars == <<fsx, vpc, piece_idx, bad_pc, bad_sz, reader, hashed, bytes_read,
                ret, matched, buf, rd_call>>
rangerVars == <<call, refs>>
storeVars == <<entries, checksum, disk, session, muts, op>>
vars == <<files, piece_length, strip, call, refs,
          entries, checksum, disk, session, muts, op,
          fsx, vpc, piece_idx, bad_pc, bad_sz, reader, hashed, bytes_read, ret,
          matched, buf, rd_call>>

----------------------------------------------------------------------------
(* Bounds *)

MaxFiles == 3
MaxFileSize == 3
MaxId == 2
MaxMutations == 1
MaxStrip == 1
Stamp == 1
MaxReads == 3
MaxNew == 2

----------------------------------------------------------------------------
(* Helpers *)

Max(a, b) == IF a >= b THEN a ELSE b
Min(a, b) == IF a <= b THEN a ELSE b

RECURSIVE SumTo(_, _)
SumTo(sizes, n) == IF n = 0 THEN 0 ELSE SumTo(sizes, n - 1) + sizes[n]

RECURSIVE Flatten(_)
Flatten(ss) == IF ss = <<>> THEN <<>> ELSE Head(ss) \o Flatten(Tail(ss))

----------------------------------------------------------------------------
(* Torrent layout: parse_torrent_buf builds File(offset, size, path) from *)
(* libtorrent's file_storage, whose offsets are the running sum of sizes. *)

FileName(i) == "f" \o ToString(i)

File(offset, size, path) == [offset |-> offset, size |-> size, path |-> path]

MkFiles(sizes, paths) ==
    [i \in 1..Len(sizes) |-> File(SumTo(sizes, i - 1), sizes[i], paths[i])]

TotalSize(fs) == IF Len(fs) = 0 THEN 0 ELSE fs[Len(fs)].offset + fs[Len(fs)].size

SizeLists == UNION {[1..n -> 0..MaxFileSize] : n \in 1..MaxFiles}

DefaultPaths(n) == [i \in 1..n |-> <<"root", FileName(i)>>]

----------------------------------------------------------------------------
(* Torrent.get_piece_refs *)

\* the overlap end taken at the file end, whatever the piece end is
OverlapEndAtFileEnd(piece_end, file_end) == file_end

OverlapEnd(piece_end, file_end) == Min(piece_end, file_end)

RECURSIVE PieceRefsFrom(_, _, _, _)
PieceRefsFrom(fs, i, start, end) ==
    IF i > Len(fs) THEN <<>>
    ELSE LET file_start == fs[i].offset
             file_end == fs[i].offset + fs[i].size
         IN IF start >= file_end \/ end <= file_start
            THEN PieceRefsFrom(fs, i + 1, start, end)
            ELSE LET overlap_start == Max(start, file_start)
                     overlap_end == OverlapEnd(end, file_end)
                 IN <<[file |-> i,
                       start |-> overlap_start - file_start,
                       stop |-> overlap_end - file_start]>>
                    \o PieceRefsFrom(fs, i + 1, start, end)

get_piece_refs(fs, piece_offset, piece_sz) ==
    PieceRefsFrom(fs, 1, piece_offset, piece_offset + piece_sz)

NoCall == [piece_offset |-> 0, piece_sz |-> 0]

\* a caller asks for the records of one piece span inside the stream
GetPieceRefs ==
    /\ \E piece_offset \in 0..TotalSize(files) :
         \E piece_sz \in 1..TotalSize(files) :
            /\ piece_offset + piece_sz <= TotalSize(files)
            /\ call' = [piece_offset |-> piece_offset, piece_sz |-> piece_sz]
            /\ refs' = get_piece_refs(files, piece_offset, piece_sz)
    /\ UNCHANGED <<torrentVars, storeVars, verifyVars>>

----------------------------------------------------------------------------
(* Store entries.  An in-memory entry is an object (it carries its class  *)
(* in cls); asdict and json turn it into plain dicts, and load turns the  *)
(* dicts back into objects.  None is the empty sequence, a timestamp t is *)
(* <<t>>; in JSON they are null and a number.                             *)

MAGIC == "AF42A720D65A556EB5CBE7DA5F0E0098379708C8"
TorrentType == "torrent"
OtherType == "other"

Ids == 1..MaxId

\* room for every id once and for one duplicate
MaxEntries == MaxId + 1

None == <<>>
Some(t) == <<t>>

NxInternal(strip_components, ready, last_verified) ==
    [cls |-> "NxInternal", strip_components |-> strip_components,
     ready |-> ready, last_verified |-> last_verified]

\* TorrentEntry.from_torrent: the id is the infohash of the buffer, so the
\* base64 text is a function of the id
B64(id) == [b64 |-> id]

TorrentEntry(id, torrent, internal) ==
    [cls |-> "TorrentEntry", type |-> TorrentType, id |-> id,
     torrent |-> torrent, nx |-> [internal |-> internal]]

\* some other implementation of the Entry protocol (type, id)
OtherEntry(id) == [cls |-> "OtherEntry", type |-> OtherType, id |-> id]

\* a freshly added entry (from_torrent), and one verified at time Stamp
Internals == {NxInternal(0, FALSE, None), NxInternal(0, TRUE, Some(Stamp))}

TorrentEntries == {TorrentEntry(id, B64(id), n) : id \in Ids, n \in Internals}

AllEntries == TorrentEntries \cup {OtherEntry(id) : id \in Ids}

\* json null / number for an optional int
JsonOpt(v) == IF v = None THEN [null |-> TRUE, num |-> 0]
              ELSE [null |-> FALSE, num |-> v[1]]
FromJsonOpt(j) == IF j.null THEN None ELSE Some(j.num)

\* dataclasses.asdict: the entry and the NxInternal inside it become dicts
asdict(e) ==
    IF e.cls = "TorrentEntry"
    THEN [type |-> e.type, id |-> e.id, torrent |-> e.torrent,
          nx |-> [internal |->
                    [strip_components |-> e.nx.internal.strip_components,
                     ready |-> e.nx.internal.ready,
                     last_verified |-> JsonOpt(e.nx.internal.last_verified)]]]
    ELSE [type |-> e.type, id |-> e.id]

\* sorted(entries, key=lambda e: e.id): a stable sort
RECURSIVE InsertById(_, _)
InsertById(sorted, e) ==
    IF sorted = <<>> THEN <<e>>
    ELSE IF Head(sorted).id <= e.id
         THEN <<Head(sorted)>> \o InsertById(Tail(sorted), e)
         ELSE <<e>> \o sorted

RECURSIVE SortById(_)
SortById(es) ==
    IF es = <<>> THEN <<>>
    ELSE InsertById(SortById(SubSeq(es, 1, Len(es) - 1)), es[Len(es)])

AsDicts(es) == [i \in 1..Len(es) |-> asdict(es[i])]

\* Store.checksum: SHA-1 (taken as collision free) of the canonical JSON of
\* the entries sorted by id
Checksum(es) == [sha1 |-> AsDicts(SortById(es))]

IdsOf(es) == {es[i].id : i \in 1..Len(es)}
UniqueIds(es) == \A i, j \in 1..Len(es) : es[i].id = es[j].id => i = j

\* the scan that never reports a duplicate
OnUpdateNoScan(es) == "ok"

\* Store.on_update: raises on the first id seen twice
on_update(es) == IF UniqueIds(es) THEN "ok" ELSE "duplicate entry"

\* index of the first entry with this id, 0 when there is none
FirstIndex(es, id) ==
    IF \E i \in 1..Len(es) : es[i].id = id
    THEN CHOOSE i \in 1..Len(es) :
            /\ es[i].id = id
            /\ \A j \in 1..(i - 1) : es[j].id # id
    ELSE 0

\* an upsert that always appends
UpsertAppendOnly(es, entry) == [err |-> "none", entries |-> Append(es, entry)]

\* an upsert that replaces whatever the kind is
UpsertNoKindCheck(es, entry) ==
    LET idx == FirstIndex(es, entry.id)
    IN IF idx # 0 THEN [err |-> "none", entries |-> [es EXCEPT ![idx] = entry]]
       ELSE [err |-> "none", entries |-> Append(es, entry)]

\* Store.upsert
upsert(es, entry) ==
    LET idx == FirstIndex(es, entry.id)
    IN IF idx # 0
       THEN IF es[idx].type # entry.type
            THEN [err |-> "cannot change entry type", entries |-> es]
            ELSE [err |-> "none", entries |-> [es EXCEPT ![idx] = entry]]
       ELSE [err |-> "none", entries |-> Append(es, entry)]

----------------------------------------------------------------------------
(* The store file and load *)

NoFile == [exists |-> FALSE, magic |-> MAGIC, checksum |-> Checksum(<<>>),
           entries |-> <<>>, orig |-> <<>>]

\* a load that forgets last_verified
FromDictNoStamp(d) ==
    TorrentEntry(d.id, d.torrent,
                 NxInternal(d.nx.internal.strip_components,
                            d.nx.internal.ready, None))

\* TorrentEntry(**entry) with NxInternal(**internal)
FromDict(d) ==
    TorrentEntry(d.id, d.torrent,
                 NxInternal(d.nx.internal.strip_components,
                            d.nx.internal.ready,
                            FromJsonOpt(d.nx.internal.last_verified)))

\* a load that never compares the checksum
LoadNoCheck(doc, ignore_checksum) ==
    IF doc.magic # MAGIC THEN [err |-> "invalid magic", entries |-> <<>>]
    ELSE IF \E i \in 1..Len(doc.entries) : doc.entries[i].type # TorrentType
    THEN [err |-> "unknown entry type", entries |-> <<>>]
    ELSE [err |-> "none",
          entries |-> [i \in 1..Len(doc.entries) |-> FromDict(doc.entries[i])]]

\* load(path, ignore_checksum)
load(doc, ignore_checksum) ==
    IF doc.magic # MAGIC THEN [err |-> "invalid magic", entries |-> <<>>]
    ELSE IF \E i \in 1..Len(doc.entries) : doc.entries[i].type # TorrentType
    THEN [err |-> "unknown entry type", entries |-> <<>>]
    ELSE LET es == [i \in 1..Len(doc.entries) |-> FromDict(doc.entries[i])]
         IN IF Checksum(es) # doc.checksum /\ ~ignore_checksum
            THEN [err |-> "checksum mismatch", entries |-> <<>>]
            ELSE [err |-> "none", entries |-> es]

\* Repo.flush_immediately, after on_update passed: the document written
Document(es) ==
    [exists |-> TRUE, magic |-> MAGIC, checksum |-> Checksum(es),
     entries |-> AsDicts(es), orig |-> AsDicts(es)]

\* the last operation: its name, how it ended, and its argument (the entry
\* of an upsert, the ignore_checksum flag of a load, whether the with block
\* ended with an exception)
NoArg == OtherEntry(0)
NoOp == [name |-> "init", result |-> "none", arg |-> NoArg,
         exc |-> FALSE, ignore |-> FALSE]
Op(name, result) == [NoOp EXCEPT !.name = name, !.result = result]

----------------------------------------------------------------------------
(* Store and Repo operations *)

\* a Repo that takes the checksum in the file as its last-known checksum
KnownChecksumFromFile(doc, es) == doc.checksum

\* Repo.__init__: self.checksum = self.store.checksum, computed from the
\* entries just loaded from the document
KnownChecksum(doc, es) == Checksum(es)

\* Repo.__init__
Open ==
    /\ session = "closed"
    /\ \E ignore_checksum \in BOOLEAN :
         IF ~disk.exists
         THEN /\ entries' = <<>>
              /\ checksum' = Checksum(<<>>)
              /\ session' = "open"
              /\ op' = [Op("open", "new") EXCEPT !.ignore = ignore_checksum]
         ELSE LET r == load(disk, ignore_checksum)
              IN IF r.err # "none"
                 THEN /\ op' = [Op("open", r.err) EXCEPT !.ignore = ignore_checksum]
                      /\ UNCHANGED <<entries, checksum, session>>
                 ELSE /\ entries' = r.entries
                      /\ checksum' = KnownChecksum(disk, r.entries)
                      /\ session' = "open"
                      /\ op' = [Op("open", "loaded") EXCEPT !.ignore = ignore_checksum]
    /\ muts' = 0
    /\ UNCHANGED <<disk, torrentVars, rangerVars, verifyVars>>

\* repo.store.upsert(entry)
UpsertEntry(entry) ==
    /\ session = "open"
    /\ entry.id \in IdsOf(entries) \/ Len(entries) < MaxEntries
    /\ LET r == upsert(entries, entry)
       IN /\ entries' = r.entries
          /\ op' = [Op("upsert",
                       IF r.err # "none" THEN "kind mismatch"
                       ELSE IF Len(r.entries) = Len(entries) THEN "replaced"
                       ELSE "appended") EXCEPT !.arg = entry]
    /\ UNCHANGED <<checksum, disk, session, torrentVars, rangerVars, verifyVars>>

\* the session mutates the store; a session makes at most MaxMutations
\* mutations between two writes
Mutation == muts < MaxMutations /\ muts' = muts + 1

Upsert == Mutation /\ \E entry \in TorrentEntries : UpsertEntry(entry)

UpsertAny == \E entry \in AllEntries : UpsertEntry(entry) /\ UNCHANGED muts

\* store.entries.append(entry): the list is public and nothing checks the
\* id, so a second entry with a stored id can be put in (at most one here)
DirectAppend ==
    /\ session = "open"
    /\ Mutation
    /\ Len(entries) < MaxEntries
    /\ UniqueIds(entries)
    /\ \E entry \in TorrentEntries :
         /\ entry.id \in IdsOf(entries)
         /\ entries' = Append(entries, entry)
         /\ op' = Op("append", "none")
    /\ UNCHANGED <<checksum, disk, session, torrentVars, rangerVars, verifyVars>>

\* entry.nx["@internal"].ready = ... / .last_verified = ... on a stored entry
SetInternal ==
    /\ session = "open"
    /\ Mutation
    /\ \E i \in 1..Len(entries) : \E n \in Internals :
         /\ entries[i].cls = "TorrentEntry"
         /\ n # entries[i].nx.internal
         /\ n.strip_components = entries[i].nx.internal.strip_components
         /\ entries' = [entries EXCEPT ![i].nx.internal = n]
         /\ op' = Op("set", "none")
    /\ UNCHANGED <<checksum, disk, session, torrentVars, rangerVars, verifyVars>>

\* a flush that writes whenever it is called
FlushAlways(es, known) ==
    IF on_update(es) # "ok" THEN "duplicate entry" ELSE "written"

\* a flush that scans for duplicates before it compares the checksum
FlushScanFirst(es, known) ==
    IF on_update(es) # "ok" THEN "duplicate entry"
    ELSE IF Checksum(es) # known THEN "written" ELSE "no changes"

\* what one Repo.flush call does to the file and the last-known checksum
FlushResult(es, known) ==
    IF Checksum(es) # known
    THEN IF on_update(es) # "ok" THEN "duplicate entry" ELSE "written"
    ELSE "no changes"

\* Repo.flush
Flush ==
    /\ session = "open"
    /\ LET res == FlushResult(entries, checksum)
       IN /\ op' = Op("flush", res)
          /\ IF res = "written"
             THEN /\ disk' = Document(entries)
                  /\ checksum' = Checksum(entries)
                  /\ muts' = 0
             ELSE UNCHANGED <<disk, checksum, muts>>
    /\ UNCHANGED <<entries, session, torrentVars, rangerVars, verifyVars>>

\* an __exit__ that flushes only when the with block ended normally
ExitFlushUnlessException ==
    /\ session = "open"
    /\ \E exc \in BOOLEAN :
         LET res == IF exc THEN "no changes" ELSE FlushResult(entries, checksum)
         IN /\ op' = [Op("exit", res) EXCEPT !.exc = exc]
            /\ IF res = "written"
               THEN disk' = Document(entries)
               ELSE UNCHANGED disk
    /\ session' = "closed"
    /\ entries' = <<>>
    /\ checksum' = Checksum(<<>>)
    /\ muts' = 0
    /\ UNCHANGED <<torrentVars, rangerVars, verifyVars>>

\* Repo.__exit__: the with block ends, normally or with an exception
Exit ==
    /\ session = "open"
    /\ \E exc \in BOOLEAN :
         LET res == FlushResult(entries, checksum)
         IN /\ op' = [Op("exit", res) EXCEPT !.exc = exc]
            /\ IF res = "written"
               THEN disk' = Document(entries)
               ELSE UNCHANGED disk
    /\ session' = "closed"
    /\ entries' = <<>>
    /\ checksum' = Checksum(<<>>)
    /\ muts' = 0
    /\ UNCHANGED <<torrentVars, rangerVars, verifyVars>>

\* another program edits the entry section of the store file and leaves the
\* persisted checksum alone: one edit per written file, made between two
\* sessions, at the head of the list
Untouched == disk.exists /\ session = "closed" /\ disk.entries = disk.orig

TamperReady ==
    /\ Untouched
    /\ \E i \in {1} \cap (1..Len(disk.entries)) :
         disk' = [disk EXCEPT !.entries[i].nx.internal.ready = ~@]
    /\ op' = Op("tamper", "ready")
    /\ UNCHANGED <<entries, checksum, session, muts, torrentVars, rangerVars, verifyVars>>

TamperSwap ==
    /\ Untouched
    /\ \E i \in {1} \cap (1..(Len(disk.entries) - 1)) :
         disk' = [disk EXCEPT !.entries[i] = disk.entries[i + 1],
                              !.entries[i + 1] = disk.entries[i]]
    /\ op' = Op("tamper", "swap")
    /\ UNCHANGED <<entries, checksum, session, muts, torrentVars, rangerVars, verifyVars>>

TamperDuplicate ==
    /\ Untouched
    /\ Len(disk.entries) < MaxEntries
    /\ \E i \in {1} \cap (1..Len(disk.entries)) :
         disk' = [disk EXCEPT !.entries = Append(@, disk.entries[i])]
    /\ op' = Op("tamper", "duplicate")
    /\ UNCHANGED <<entries, checksum, session, muts, torrentVars, rangerVars, verifyVars>>

TamperType ==
    /\ Untouched
    /\ \E i \in {1} \cap (1..Len(disk.entries)) :
         disk' = [disk EXCEPT !.entries[i].type = OtherType]
    /\ op' = Op("tamper", "type")
    /\ UNCHANGED <<entries, checksum, session, muts, torrentVars, rangerVars, verifyVars>>

----------------------------------------------------------------------------
(* Paths.  A path is the sequence of its parts.                           *)

PaddingMarker == ".____padding_file"

\* a strip that lets a path of exactly strip_components parts through
ResolveOffByOne(path, strip_components) ==
    IF strip_components # 0
    THEN IF Len(path) < strip_components
         THEN [err |-> "too short", path |-> <<>>]
         ELSE [err |-> "none",
               path |-> SubSeq(path, strip_components + 1, Len(path))]
    ELSE [err |-> "none", path |-> path]

\* _match_files / verify_pieces: strip the leading components
Resolve(path, strip_components) ==
    IF strip_components # 0
    THEN IF Len(path) <= strip_components
         THEN [err |-> "too short", path |-> <<>>]
         ELSE [err |-> "none",
               path |-> SubSeq(path, strip_components + 1, Len(path))]
    ELSE [err |-> "none", path |-> path]

\* a test that looks for the marker in the last part of the path
IsPaddingLastPart(file_path) ==
    Len(file_path) > 0 /\ file_path[Len(file_path)] = PaddingMarker

\* file_path.parts and file_path.parts[0] == ".____padding_file"
IsPadding(file_path) == Len(file_path) > 0 /\ file_path[1] = PaddingMarker

\* the torrent was made with this file as padding (zero bytes in the stream)
DeclaredPadding(file) == \E k \in 1..Len(file.path) : file.path[k] = PaddingMarker

----------------------------------------------------------------------------
(* The torrent's pieces.  Byte p of the stream (0-based) carries the value *)
(* p + 1, a padding byte carries 0; SHA-1 is taken as collision free.      *)

Sha1(data) == [sha1 |-> data]

sz(fs) == TotalSize(fs)
pc(fs, plen) == (sz(fs) + plen - 1) \div plen

\* torrent.info.piece_size(piece_idx): the last piece may be shorter
piece_size(fs, plen, idx) == Min(plen, sz(fs) - idx * plen)

FileAt(fs, p) ==
    CHOOSE i \in 1..Len(fs) : fs[i].offset <= p /\ p < fs[i].offset + fs[i].size

ExpectedByte(fs, p) == IF DeclaredPadding(fs[FileAt(fs, p)]) THEN 0 ELSE p + 1

ExpectedPiece(fs, plen, idx) ==
    [k \in 1..piece_size(fs, plen, idx) |-> ExpectedByte(fs, idx * plen + k - 1)]

\* torrent.info.hash_for_piece(piece_idx)
hash_for_piece(fs, plen, idx) == Sha1(ExpectedPiece(fs, plen, idx))

----------------------------------------------------------------------------
(* _match_files *)

\* a match check without the is_file() test: whatever exists is found
RECURSIVE MatchFromExistsOnly(_, _, _, _, _)
MatchFromExistsOnly(fs, x, strip_components, i, acc) ==
    IF i > Len(fs) THEN acc
    ELSE LET r == Resolve(fs[i].path, strip_components)
         IN IF r.err # "none" THEN [acc EXCEPT !.err = r.err]
            ELSE IF IsPadding(r.path)
            THEN MatchFromExistsOnly(fs, x, strip_components, i + 1, acc)
            ELSE IF x[i].kind = "missing"
            THEN MatchFromExistsOnly(fs, x, strip_components, i + 1,
                                     [acc EXCEPT !.missing = @ \cup {fs[i].path}])
            ELSE MatchFromExistsOnly(fs, x, strip_components, i + 1,
                                     [acc EXCEPT !.found = @ \cup {fs[i].path}])

\* the loop of _match_files from file i on
RECURSIVE MatchFrom(_, _, _, _, _)
MatchFrom(fs, x, strip_components, i, acc) ==
    IF i > Len(fs) THEN acc
    ELSE LET r == Resolve(fs[i].path, strip_components)
         IN IF r.err # "none" THEN [acc EXCEPT !.err = r.err]
            ELSE IF IsPadding(r.path)
            THEN MatchFrom(fs, x, strip_components, i + 1, acc)
            ELSE IF x[i].kind = "missing"
            THEN MatchFrom(fs, x, strip_components, i + 1,
                           [acc EXCEPT !.missing = @ \cup {fs[i].path}])
            ELSE IF x[i].kind = "file"
            THEN MatchFrom(fs, x, strip_components, i + 1,
                           [acc EXCEPT !.found = @ \cup {fs[i].path}])
            ELSE MatchFrom(fs, x, strip_components, i + 1,
                           [acc EXCEPT !.error = @ \cup {fs[i].path}])

match_files(fs, x, strip_components) ==
    MatchFrom(fs, x, strip_components, 1,
              [err |-> "none", found |-> {}, missing |-> {}, error |-> {}])

\* no MatchFilesResult: matches() was not called yet, or it raised
NoMatch == [err |-> "unset", found |-> {}, missing |-> {}, error |-> {}]

\* an ok that looks at the missing set only
OkMissingOnly(m) == Cardinality(m.missing) = 0

\* MatchFilesResult.ok
ok(m) == Cardinality(m.missing) = 0 /\ Cardinality(m.error) = 0

----------------------------------------------------------------------------
(* DefaultFileReader.  cache lists the keys of refs / sizes / usage in    *)
(* insertion order with their file handle, size and usage; a file handle  *)
(* is named by the number of the open() call that made it; handles is the *)
(* set of file handles that are open; opens counts the open() calls.      *)

max_open_files == 32

NewReader == [cache |-> <<>>, handles |-> {}, opens |-> 0]

\* no read call made yet
NoRead == [key |-> <<>>, start |-> 0, stop |-> 0, n |-> 0]

\* the read call after the calls counted in c
ReadCall(c, key, r) ==
    [key |-> key, start |-> r.start, stop |-> r.stop, n |-> c.n + 1]

CacheKeys(rd) == {rd.cache[k].key : k \in 1..Len(rd.cache)}

CacheIndex(rd, key) == CHOOSE k \in 1..Len(rd.cache) : rd.cache[k].key = key

\* the entries of q at the positions in keep, in their order
KeepAt(q, keep) ==
    LET F[k \in 0..Len(q)] ==
            IF k = 0 THEN <<>>
            ELSE IF k \in keep THEN Append(F[k - 1], q[k]) ELSE F[k - 1]
    IN F[Len(q)]

\* a cleanup that closes the first four entries, busy or not
CleanupBusyToo(rd) ==
    IF Len(rd.cache) <= max_open_files THEN rd
    ELSE LET Evicted == {k \in 1..Len(rd.cache) : k <= 4}
         IN [rd EXCEPT
               !.cache = KeepAt(rd.cache, (1..Len(rd.cache)) \ Evicted),
               !.handles = @ \ {rd.cache[k].fh : k \in Evicted}]

\* a cleanup that does not stop after the first four entries
CleanupNoLimit(rd) ==
    IF Len(rd.cache) <= max_open_files THEN rd
    ELSE LET Evicted == {k \in 1..Len(rd.cache) : ~(rd.cache[k].usage > 0)}
         IN [rd EXCEPT
               !.cache = KeepAt(rd.cache, (1..Len(rd.cache)) \ Evicted),
               !.handles = @ \ {rd.cache[k].fh : k \in Evicted}]

\* DefaultFileReader.cleanup
cleanup(rd) ==
    IF Len(rd.cache) <= max_open_files THEN rd
    ELSE LET Evicted == {k \in 1..Len(rd.cache) :
                            k <= 4 /\ ~(rd.cache[k].usage > 0)}
         IN [rd EXCEPT
               !.cache = KeepAt(rd.cache, (1..Len(rd.cache)) \ Evicted),
               !.handles = @ \ {rd.cache[k].fh : k \in Evicted}]

\* a read that forgets fh.seek(r.start): the bytes come from the file's start
ChunkNoSeek(x, r) == SubSeq(x.data, 1, Min(r.stop - r.start, Len(x.data)))

\* fh.seek(r.start) and fh.read(r.stop - r.start): the bytes the file has in
\* the range, fewer than asked for when the file ends before r.stop
Chunk(x, r) == SubSeq(x.data, r.start + 1, Min(r.stop, Len(x.data)))

\* a read that takes one off the usage count only when the range ends past
\* the recorded size
ReadStrictEnd(rd, key, x, r) ==
    LET miss == key \notin CacheKeys(rd)
        rd1 == IF miss THEN cleanup(rd) ELSE rd
    IN IF miss /\ ~x.readable
       THEN [err |-> "open failed", rd |-> rd1, chunk |-> <<>>]
       ELSE LET rd2 == IF miss
                       THEN [rd1 EXCEPT
                               !.cache = Append(@, [key |-> key,
                                                    fh |-> rd1.opens + 1,
                                                    size |-> Len(x.data),
                                                    usage |-> 1]),
                               !.handles = @ \cup {rd1.opens + 1},
                               !.opens = @ + 1]
                       ELSE rd1
                k == CacheIndex(rd2, key)
                rd3 == IF r.stop > rd2.cache[k].size
                       THEN [rd2 EXCEPT !.cache[k].usage = @ - 1]
                       ELSE rd2
            IN IF x.io_error
               THEN [err |-> "read failed", rd |-> rd3, chunk |-> <<>>]
               ELSE [err |-> "none", rd |-> rd3, chunk |-> Chunk(x, r)]

\* a read that adds one to the usage count on a cache hit as well
ReadCountsHits(rd, key, x, r) ==
    LET miss == key \notin CacheKeys(rd)
        rd1 == IF miss THEN cleanup(rd) ELSE rd
    IN IF miss /\ ~x.readable
       THEN [err |-> "open failed", rd |-> rd1, chunk |-> <<>>]
       ELSE LET rd2 == IF miss
                       THEN [rd1 EXCEPT
                               !.cache = Append(@, [key |-> key,
                                                    fh |-> rd1.opens + 1,
                                                    size |-> Len(x.data),
                                                    usage |-> 1]),
                               !.handles = @ \cup {rd1.opens + 1},
                               !.opens = @ + 1]
                       ELSE [rd1 EXCEPT
                               !.cache[CacheIndex(rd1, key)].usage = @ + 1]
                k == CacheIndex(rd2, key)
                rd3 == IF r.stop >= rd2.cache[k].size
                       THEN [rd2 EXCEPT !.cache[k].usage = @ - 1]
                       ELSE rd2
            IN IF x.io_error
               THEN [err |-> "read failed", rd |-> rd3, chunk |-> <<>>]
               ELSE [err |-> "none", rd |-> rd3, chunk |-> Chunk(x, r)]

\* DefaultFileReader.read(file, r) on the file whose disk state is x
read(rd, key, x, r) ==
    LET miss == key \notin CacheKeys(rd)
        rd1 == IF miss THEN cleanup(rd) ELSE rd
    IN IF miss /\ ~x.readable
       THEN [err |-> "open failed", rd |-> rd1, chunk |-> <<>>]
       ELSE LET rd2 == IF miss
                       THEN [rd1 EXCEPT
                               !.cache = Append(@, [key |-> key,
                                                    fh |-> rd1.opens + 1,
                                                    size |-> Len(x.data),
                                                    usage |-> 1]),
                               !.handles = @ \cup {rd1.opens + 1},
                               !.opens = @ + 1]
                       ELSE rd1
                k == CacheIndex(rd2, key)
                rd3 == IF r.stop >= rd2.cache[k].size
                       THEN [rd2 EXCEPT !.cache[k].usage = @ - 1]
                       ELSE rd2
            IN IF x.io_error
               THEN [err |-> "read failed", rd |-> rd3, chunk |-> <<>>]
               ELSE [err |-> "none", rd |-> rd3,
                     chunk |-> Chunk(x, r)]

\* a reader whose __exit__ closes nothing
TeardownNothing(rd) == rd

\* DefaultFileReader.__exit__: every handle in refs is closed
teardown(rd) ==
    [rd EXCEPT !.handles = @ \ {rd.cache[k].fh : k \in 1..Len(rd.cache)}]

----------------------------------------------------------------------------
(* verify_pieces *)

Zeros(n) == [k \in 1..n |-> 0]

\* the inner loop of verify_pieces over the records of one piece
RECURSIVE ReadRefs(_, _, _, _, _, _)
ReadRefs(fs, x, strip_components, rs, k, acc) ==
    IF k > Len(rs) THEN acc
    ELSE LET i == rs[k].file
             r == [start |-> rs[k].start, stop |-> rs[k].stop]
             p == Resolve(fs[i].path, strip_components)
         IN IF p.err # "none" THEN [acc EXCEPT !.err = p.err]
            ELSE IF IsPadding(p.path)
            THEN ReadRefs(fs, x, strip_components, rs, k + 1,
                          [acc EXCEPT !.buf = @ \o Zeros(r.stop - r.start)])
            ELSE LET got == read(acc.rd, p.path, x[i], r)
                     c == ReadCall(acc.call, p.path, r)
                 IN IF got.err # "none"
                    THEN [acc EXCEPT !.err = got.err, !.rd = got.rd, !.call = c]
                    ELSE ReadRefs(fs, x, strip_components, rs, k + 1,
                                  [acc EXCEPT !.buf = @ \o got.chunk,
                                              !.rd = got.rd,
                                              !.call = c,
                                              !.disk_bytes = @ + Len(got.chunk)])

\* a loop that stops at the first bad piece
StopOnBadPiece(idx, mismatch, n) == IF mismatch THEN n ELSE idx + 1

\* for piece_idx in range(torrent.pc): the next index, whatever the hash
\* comparison of this piece said
NextPiece(idx, mismatch, n) == idx + 1

\* data = bytes(buf[:piece_sz])
Truncate(b, piece_sz) == SubSeq(b, 1, Min(Len(b), piece_sz))

\* verify_pieces up to the with block: the match check
VerifyStart ==
    /\ vpc = "idle"
    /\ LET m == match_files(files, fsx, strip)
       IN IF m.err # "none"
          THEN /\ vpc' = "raised"
               /\ ret' = m.err
               /\ matched' = matched
          ELSE IF ~ok(m)
          THEN /\ vpc' = "done"
               /\ ret' = "False"
               /\ matched' = m
          ELSE /\ vpc' = "scan"
               /\ ret' = ret
               /\ matched' = m
    /\ UNCHANGED <<piece_idx, bad_pc, bad_sz, reader, hashed, bytes_read, fsx,
                   buf, rd_call>>
    /\ UNCHANGED <<torrentVars, rangerVars, storeVars>>

\* one iteration of the loop over the pieces
VerifyPiece ==
    /\ vpc = "scan"
    /\ piece_idx < pc(files, piece_length)
    /\ LET piece_sz == piece_size(files, piece_length, piece_idx)
           piece_offset == piece_idx * piece_length
           got == ReadRefs(files, fsx, strip,
                           get_piece_refs(files, piece_offset, piece_sz), 1,
                           [err |-> "none", buf |-> <<>>, rd |-> reader,
                            call |-> rd_call, disk_bytes |-> 0])
           data == Truncate(got.buf, piece_sz)
           actual_hash == Sha1(data)
           expected_hash == hash_for_piece(files, piece_length, piece_idx)
       IN /\ bytes_read' = bytes_read + got.disk_bytes
          /\ buf' = got.buf
          /\ rd_call' = got.call
          /\ IF got.err # "none"
             THEN /\ vpc' = "raised"
                  /\ ret' = got.err
                  /\ reader' = teardown(got.rd)
                  /\ UNCHANGED <<piece_idx, bad_pc, bad_sz, hashed>>
             ELSE /\ reader' = got.rd
                  /\ hashed' = Append(hashed, piece_idx)
                  /\ IF actual_hash # expected_hash
                     THEN /\ bad_pc' = bad_pc + 1
                          /\ bad_sz' = bad_sz + piece_sz
                     ELSE UNCHANGED <<bad_pc, bad_sz>>
                  /\ piece_idx' = NextPiece(piece_idx, actual_hash # expected_hash,
                                            pc(files, piece_length))
                  /\ UNCHANGED <<vpc, ret>>
    /\ UNCHANGED <<fsx, matched>>
    /\ UNCHANGED <<torrentVars, rangerVars, storeVars>>

\* the loop is over: the reader is torn down and the result returned
VerifyReturn ==
    /\ vpc = "scan"
    /\ piece_idx = pc(files, piece_length)
    /\ reader' = teardown(reader)
    /\ vpc' = "done"
    /\ ret' = IF bad_pc = 0 THEN "True" ELSE "False"
    /\ UNCHANGED <<piece_idx, bad_pc, bad_sz, hashed, bytes_read, fsx,
                   matched, buf, rd_call>>
    /\ UNCHANGED <<torrentVars, rangerVars, storeVars>>

----------------------------------------------------------------------------
(* The inputs of a verify call: a torrent, a strip count, and a disk that *)
(* holds the torrent's files except for one deviation.                    *)

VerifySizeLists ==
    {sizes \in UNION {[1..n -> 0..(MaxFileSize - 1)] : n \in 1..(MaxFiles - 1)} :
        SumTo(sizes, Len(sizes)) >= 1}

Deviation(t, i, S) == [t |-> t, i |-> i, S |-> S]

Deviations(sizes) ==
    LET n == Len(sizes)
        total == SumTo(sizes, n)
    IN {Deviation("none", 0, {})}
       \cup {Deviation(t, i, {}) :
               t \in {"missing", "dir", "unreadable", "io_error", "short",
                      "long", "pad", "pad0", "bare"},
               i \in 1..n}
       \cup {Deviation("corrupt", 0, {p}) : p \in 0..(total - 1)}
       \cup {Deviation("corrupt", 0, 0..(total - 1))}

\* a torrent of one-byte files, two more than the reader's budget, whole on
\* disk or with its second file longer on disk than declared
ManyFiles == [i \in 1..(max_open_files + 2) |-> 1]

ManyFilesDeviations == {Deviation("none", 0, {}), Deviation("long", 2, {})}

VerifyInputs ==
    UNION {{<<sizes, dev>> : dev \in Deviations(sizes)} :
              sizes \in VerifySizeLists}
    \cup {<<ManyFiles, dev>> : dev \in ManyFilesDeviations}

PathOf(dev, i) ==
    IF dev.i = i /\ dev.t = "pad" THEN <<"root", PaddingMarker, FileName(i)>>
    ELSE IF dev.i = i /\ dev.t = "pad0" THEN <<PaddingMarker, FileName(i)>>
    ELSE IF dev.i = i /\ dev.t = "bare" THEN <<FileName(i)>>
    ELSE <<"root", FileName(i)>>

\* the bytes at the file's resolved path
DataOf(fs, dev, i) ==
    LET good == [k \in 1..fs[i].size |->
                    IF (fs[i].offset + k - 1) \in dev.S
                    THEN 0 - (fs[i].offset + k)
                    ELSE fs[i].offset + k]
    IN IF dev.i = i /\ dev.t = "short" THEN SubSeq(good, 1, Len(good) - 1)
       ELSE IF dev.i = i /\ dev.t = "long" THEN Append(good, 0)
       ELSE good

OnDisk(fs, dev, i) ==
    IF dev.i = i /\ dev.t \in {"missing", "pad", "pad0"}
    THEN [kind |-> "missing", readable |-> FALSE, io_error |-> FALSE,
          data |-> <<>>]
    ELSE IF dev.i = i /\ dev.t = "dir"
    THEN [kind |-> "dir", readable |-> FALSE, io_error |-> FALSE, data |-> <<>>]
    ELSE [kind |-> "file",
          readable |-> ~(dev.i = i /\ dev.t = "unreadable"),
          io_error |-> (dev.i = i /\ dev.t = "io_error"),
          data |-> DataOf(fs, dev, i)]

VerifyIdle ==
    /\ fsx = <<>>
    /\ vpc = "idle"
    /\ piece_idx = 0
    /\ bad_pc = 0
    /\ bad_sz = 0
    /\ reader = NewReader
    /\ hashed = <<>>
    /\ bytes_read = 0
    /\ ret = "none"
    /\ matched = NoMatch
    /\ buf = <<>>
    /\ rd_call = NoRead

----------------------------------------------------------------------------
(* Specifications *)

RangerIdle == call = NoCall /\ refs = <<>>
TorrentIdle == files = <<>> /\ piece_length = 1 /\ strip = 0
StoreIdle ==
    /\ entries = <<>>
    /\ checksum = Checksum(<<>>)
    /\ disk = NoFile
    /\ session = "closed"
    /\ muts = 0
    /\ op = NoOp

\* a parsed torrent, no piece asked for yet
InitRanger ==
    /\ \E sizes \in SizeLists : files = MkFiles(sizes, DefaultPaths(Len(sizes)))
    /\ piece_length = 1
    /\ strip = 0
    /\ RangerIdle
    /\ StoreIdle
    /\ VerifyIdle

NextRanger == GetPieceRefs

SpecRanger == InitRanger /\ [][NextRanger]_vars

\* a fresh Store() object
InitStore ==
    /\ entries = <<>>
    /\ checksum = Checksum(<<>>)
    /\ disk = NoFile
    /\ session = "open"
    /\ muts = 0
    /\ op = NoOp
    /\ TorrentIdle
    /\ RangerIdle
    /\ VerifyIdle

NextStore == UpsertAny

SpecStore == InitStore /\ [][NextStore]_vars

\* no store file yet, no Repo object yet
Init == StoreIdle /\ TorrentIdle /\ RangerIdle /\ VerifyIdle

Next ==
    \/ Open
    \/ Upsert
    \/ DirectAppend
    \/ SetInternal
    \/ Flush
    \/ Exit
    \/ TamperReady
    \/ TamperSwap
    \/ TamperDuplicate
    \/ TamperType

Spec == Init /\ [][Next]_vars

\* a verify_pieces call about to be made
InitVerify ==
    /\ \E input \in VerifyInputs :
         LET sizes == input[1]
             dev == input[2]
             fs == MkFiles(sizes, [i \in 1..Len(sizes) |-> PathOf(dev, i)])
         IN /\ files = fs
            /\ fsx = [i \in 1..Len(sizes) |-> OnDisk(fs, dev, i)]
    /\ piece_length \in 1..MaxFileSize
    /\ strip \in 0..MaxStrip
    /\ vpc = "idle"
    /\ piece_idx = 0
    /\ bad_pc = 0
    /\ bad_sz = 0
    /\ reader = NewReader
    /\ hashed = <<>>
    /\ bytes_read = 0
    /\ ret = "none"
    /\ matched = NoMatch
    /\ buf = <<>>
    /\ rd_call = NoRead
    /\ RangerIdle
    /\ StoreIdle

NextVerify == VerifyStart \/ VerifyPiece \/ VerifyReturn

SpecVerify == InitVerify /\ [][NextVerify]_vars

----------------------------------------------------------------------------
(* The file reader on its own: read calls in any order on a reader that   *)
(* already holds as many files as its budget allows.                      *)

CacheKey(k) == <<FileName(k)>>

\* every file of this specification: a readable regular file of MaxFileSize bytes
CacheFile ==
    [kind |-> "file", readable |-> TRUE, io_error |-> FALSE,
     data |-> [k \in 1..MaxFileSize |-> k]]

\* a range that stops before the file's end, one that stops at it and one
\* that stops past it
PartRange == [start |-> 0, stop |-> MaxFileSize - 1]
FullRange == [start |-> 0, stop |-> MaxFileSize]
PastRange == [start |-> 1, stop |-> MaxFileSize + 1]
CacheRanges == {PartRange, FullRange, PastRange}

\* the reader rd after reading files k .. n in turn, the files in busy in
\* part and the others to their end
RECURSIVE WarmFrom(_, _, _, _)
WarmFrom(rd, k, n, busy) ==
    IF k > n THEN rd
    ELSE LET got == read(rd, CacheKey(k), CacheFile,
                         IF k \in busy THEN PartRange ELSE FullRange)
         IN IF got.err # "none" THEN rd
            ELSE WarmFrom(got.rd, k + 1, n, busy)

WarmUp(n, busy) == WarmFrom(NewReader, 1, n, busy)

\* the files the calls read: the first cached file, the fifth, and files
\* not read before
HotKeys == {1, 5} \cup ((max_open_files + 1)..(max_open_files + MaxNew))

\* reader.read(file, r)
CacheRead ==
    /\ rd_call.n < MaxReads
    /\ \E k \in HotKeys : \E r \in CacheRanges :
          LET got == read(reader, CacheKey(k), CacheFile, r)
          IN /\ reader' = got.rd
             /\ buf' = got.chunk
             /\ rd_call' = ReadCall(rd_call, CacheKey(k), r)
    /\ UNCHANGED <<fsx, vpc, piece_idx, bad_pc, bad_sz, hashed, bytes_read, ret,
                   matched>>
    /\ UNCHANGED <<torrentVars, rangerVars, storeVars>>

\* a reader that has read max_open_files files, some of the first five in
\* part and all the others to their end
InitCache ==
    /\ \E busy \in SUBSET (1..5) : reader = WarmUp(max_open_files, busy)
    /\ rd_call = NoRead
    /\ fsx = <<>>
    /\ vpc = "idle"
    /\ piece_idx = 0
    /\ bad_pc = 0
    /\ bad_sz = 0
    /\ hashed = <<>>
    /\ bytes_read = 0
    /\ ret = "none"
    /\ matched = NoMatch
    /\ buf = <<>>
    /\ TorrentIdle
    /\ RangerIdle
    /\ StoreIdle

NextCache == CacheRead

SpecCache == InitCache /\ [][NextCache]_vars

----------------------------------------------------------------------------
(* The verify command: verification passes over the entries of a loaded   *)
(* store.  What the match check and verify_pieces say about an entry's    *)
(* files is an input of the pass.                                         *)

\* int(time.time())
Times == 1..Stamp

\* the @internal records a stored entry can have
AllInternals ==
    {NxInternal(0, ready, last_verified) :
        ready \in BOOLEAN, last_verified \in {None} \cup {Some(t) : t \in Times}}

\* the stores the verify command can load: one or two torrent entries with
\* different ids (the store file is read with ignore_checksum=False and
\* the files a session writes hold no id twice)
CliStores ==
    {<<TorrentEntry(id, B64(id), n)>> : id \in Ids, n \in AllInternals}
    \cup UNION {{<<TorrentEntry(id1, B64(id1), n1), TorrentEntry(id2, B64(id2), n2)>> :
                    id2 \in Ids \ {id1}, n1 \in AllInternals, n2 \in AllInternals} :
                 id1 \in Ids}

\* how the checks of a pass end: matches() not ok, verify_pieces False,
\* verify_pieces True, or one of the two raising
Outcomes == {"not ok", "failed", "passed", "raised"}

\* a pass that stores the verdict as the ready flag, as the add command does
VerifySetsReady(es, i, outcome, now) ==
    IF outcome \in {"not ok", "raised"}
    THEN [err |-> IF outcome = "raised" THEN "raised" ELSE "none", entries |-> es]
    ELSE LET es1 == [es EXCEPT ![i].nx.internal.last_verified = Some(now),
                               ![i].nx.internal.ready = (outcome = "passed")]
         IN upsert(es1, es1[i])

\* _verify_single_torrent(repo, base_path, entry) for the entry at index i
verify_single_torrent(es, i, outcome, now) ==
    IF outcome \in {"not ok", "raised"}
    THEN [err |-> IF outcome = "raised" THEN "raised" ELSE "none", entries |-> es]
    ELSE LET es1 == [es EXCEPT ![i].nx.internal.last_verified = Some(now)]
             r1 == upsert(es1, es1[i])
         IN IF r1.err # "none" THEN r1
            ELSE IF outcome = "passed"
            THEN LET es2 == [r1.entries EXCEPT ![i].nx.internal.ready = TRUE]
                 IN upsert(es2, es2[i])
            ELSE r1

\* one verification pass of the verify command
VerifyEntry ==
    /\ session = "open"
    /\ \E i \in 1..Len(entries) : \E outcome \in Outcomes : \E now \in Times :
          LET r == verify_single_torrent(entries, i, outcome, now)
          IN /\ entries' = r.entries
             /\ op' = [Op("verify", outcome) EXCEPT !.arg = entries[i]]
    /\ UNCHANGED <<checksum, disk, session, muts>>
    /\ UNCHANGED <<torrentVars, rangerVars, verifyVars>>

\* a session of the verify command right after the store was loaded
InitCli ==
    /\ \E es \in CliStores :
          /\ entries = es
          /\ checksum = Checksum(es)
          /\ disk = Document(es)
    /\ session = "open"
    /\ muts = 0
    /\ op = NoOp
    /\ TorrentIdle
    /\ RangerIdle
    /\ VerifyIdle

NextCli == VerifyEntry

SpecCli == InitCli /\ [][NextCli]_vars

----------------------------------------------------------------------------
(* Properties *)

\* byte p of the stream, named by the file that holds it and its place there
StreamByte(fs, p) == <<FileAt(fs, p), p - fs[FileAt(fs, p)].offset>>

\* the bytes an emitted record stands for
RefBytes(ref) ==
    [j \in 1..(ref.stop - ref.start) |-> <<ref.file, ref.start + j - 1>>]

\* C1: for a contiguous file list and a piece span inside the stream,
\* get_piece_refs emits its records in file declaration order, and the
\* emitted ranges, concatenated in emission order, are exactly the stream
\* bytes piece_offset .. piece_offset + piece_sz - 1.
C1_PieceReconstruction ==
    call # NoCall =>
        /\ \A k \in 1..(Len(refs) - 1) : refs[k].file < refs[k + 1].file
        /\ Flatten([k \in 1..Len(refs) |-> RefBytes(refs[k])])
             = [k \in 1..call.piece_sz |->
                    StreamByte(files, call.piece_offset + k - 1)]

\* a piece that ends inside the third file it touches
C1_Witness ==
    /\ call # NoCall
    /\ Len(refs) = 3
    /\ refs[1].start > 0
    /\ refs[3].stop < files[refs[3].file].size

\* C2: upsert on a store with unique ids replaces the entry with the same id
\* (and kind) in place, all other positions and the length unchanged, and
\* appends an entry with a new id at the end; the ids stay unique.
C2_UpsertIdentity ==
    [][(op'.name = "upsert" /\ UniqueIds(entries)) =>
          LET e == op'.arg
              idx == FirstIndex(entries, e.id)
          IN /\ (idx # 0 /\ entries[idx].type = e.type) =>
                    /\ Len(entries') = Len(entries)
                    /\ entries'[idx] = e
                    /\ \A j \in 1..Len(entries) : j # idx => entries'[j] = entries[j]
             /\ idx = 0 => entries' = Append(entries, e)
             /\ UniqueIds(entries')]_vars

\* an entry was replaced in a store that holds another entry as well
C2_Witness ==
    /\ op.name = "upsert"
    /\ op.result = "replaced"
    /\ Len(entries) >= 2
    /\ entries[1] = op.arg

\* C3: upsert of an entry whose id is stored under another kind fails and
\* leaves the entry list (entries, order, checksum) as it was.
C3_KindMismatch ==
    [][(/\ op'.name = "upsert"
        /\ \E i \in 1..Len(entries) :
              entries[i].id = op'.arg.id /\ entries[i].type # op'.arg.type) =>
          /\ op'.result = "kind mismatch"
          /\ entries' = entries
          /\ Checksum(entries') = Checksum(entries)]_vars

\* an upsert ended in the kind error on a store of two entries
C3_Witness ==
    /\ op.name = "upsert"
    /\ op.result = "kind mismatch"
    /\ Len(entries) >= 2

\* a Repo.flush call, made directly or by __exit__
FlushCall == op'.name \in {"flush", "exit"}

\* C4 as stated: flush writes exactly when the checksum of the entries
\* differs from the last-known checksum.
C4_WritesIffChanged ==
    [][FlushCall =>
          ((op'.result = "written") <=> (Checksum(entries) # checksum))]_vars

\* C4: flush writes the store file exactly when the checksum of the entries
\* differs from the last-known checksum and no two entries share an id; the
\* write stores the current entries and makes their checksum the last-known
\* one, anything else leaves the file and the last-known checksum alone; a
\* flush right after a flush that did not raise, and a flush right after the
\* load, write nothing.
C4_WritesIffChangedAndUnique ==
    [][FlushCall =>
          /\ (op'.result = "written") <=>
                (Checksum(entries) # checksum /\ UniqueIds(entries))
          /\ IF op'.result = "written"
             THEN /\ disk' = Document(entries)
                  /\ disk' # disk
                  /\ op'.name = "flush" => checksum' = Checksum(entries)
             ELSE /\ disk' = disk
                  /\ op'.name = "flush" => checksum' = checksum
          /\ (op.name = "flush" /\ op.result # "duplicate entry") =>
                op'.result = "no changes"
          /\ op.name = "open" => op'.result = "no changes"]_vars

\* a flush found nothing to write: the file already holds the entries
C4_Witness ==
    /\ op.name = "flush"
    /\ op.result = "no changes"
    /\ session = "open"
    /\ Len(entries) >= 1
    /\ disk.exists
    /\ disk.entries = AsDicts(entries)
    /\ checksum = disk.checksum

\* the file holds what the program last wrote
AsWritten == disk.exists /\ disk.entries = disk.orig

\* C5: the program never writes two entries with the same id: a write only
\* happens after the duplicate scan passed, and a flush whose scan finds a
\* duplicate raises, writes nothing and keeps the last-known checksum.
C5_NoDuplicatePersisted ==
    /\ [](AsWritten => UniqueIds(disk.entries))
    /\ [][FlushCall =>
            /\ disk' # disk => UniqueIds(entries) /\ UniqueIds(disk'.entries)
            /\ (Checksum(entries) # checksum /\ ~UniqueIds(entries)) =>
                  /\ op'.result = "duplicate entry"
                  /\ disk' = disk
                  /\ op'.name = "flush" => checksum' = checksum]_vars

\* a flush ended in the duplicate error while the file holds a written store
C5_Witness ==
    /\ op.name = "flush"
    /\ op.result = "duplicate entry"
    /\ ~UniqueIds(entries)
    /\ AsWritten
    /\ checksum = disk.checksum

\* C6 as stated: every flush of a store with two entries sharing an id ends
\* in the duplicate error, whether or not the checksum changed.
C6_ScanOnEveryFlush ==
    [][(FlushCall /\ ~UniqueIds(entries)) =>
          op'.result = "duplicate entry"]_vars

\* C6: the duplicate scan runs on the flush calls that found the checksum
\* changed: such a flush of a store with two entries sharing an id ends in
\* the duplicate error; with the checksum unchanged the flush is a no-op and
\* raises nothing.
C6_ScanOnChangedFlush ==
    [][(FlushCall /\ ~UniqueIds(entries)) =>
          /\ disk' = disk
          /\ IF Checksum(entries) # checksum
             THEN op'.result = "duplicate entry"
             ELSE op'.result = "no changes"]_vars

\* a no-op flush of a store that holds a duplicate
C6_Witness ==
    /\ op.name = "flush"
    /\ op.result = "no changes"
    /\ ~UniqueIds(entries)

\* C7: a store of torrent entries with unique ids, written by flush, loads
\* without the checksum override into the same entries in the same order,
\* with the same checksum.
C7_RoundTrip ==
    /\ [][(FlushCall /\ op'.result = "written") =>
            LET r == load(disk', FALSE)
            IN /\ r.err = "none"
               /\ r.entries = entries
               /\ Checksum(r.entries) = Checksum(entries)
               /\ Checksum(r.entries) = disk'.checksum]_vars
    /\ []((op.name = "open" /\ AsWritten) =>
            /\ op.result = "loaded"
            /\ AsDicts(entries) = disk.orig
            /\ Checksum(entries) = disk.checksum
            /\ checksum = disk.checksum)

\* a written store of two entries, one of them verified, was loaded back
C7_Witness ==
    /\ op.name = "open"
    /\ op.result = "loaded"
    /\ ~op.ignore
    /\ AsWritten
    /\ Len(entries) >= 2
    /\ \E i \in 1..Len(entries) : entries[i].nx.internal.last_verified # None

\* the entry section was edited after the write
Edited == disk.exists /\ disk.entries # disk.orig

Count(q, x) == Cardinality({k \in 1..Len(q) : q[k] = x})
Range(q) == {q[k] : k \in 1..Len(q)}
IsReordering(a, b) == \A x \in Range(a) \cup Range(b) : Count(a, x) = Count(b, x)

\* C8 as stated: a load of a file whose entries were changed and whose
\* checksum was not fails with the checksum error, and succeeds with the
\* changed entries under ignore_checksum.
C8_TamperDetected ==
    (op.name = "open" /\ Edited) =>
        IF op.ignore
        THEN op.result = "loaded" /\ AsDicts(entries) = disk.entries
        ELSE op.result = "checksum mismatch"

\* C8: when the edit left well-formed torrent entries and is more than a
\* reordering of them, load fails with the checksum error and yields no
\* store, and under ignore_checksum it succeeds with the changed entries.
\* An edit of a kind tag fails the load with the unknown-type error in both
\* modes; a mere reordering loads without any error.
C8_TamperDetectedUnlessReordered ==
    (op.name = "open" /\ Edited) =>
        IF \E i \in 1..Len(disk.entries) : disk.entries[i].type # TorrentType
        THEN op.result = "unknown entry type" /\ session = "closed"
        ELSE IF IsReordering(disk.entries, disk.orig)
        THEN op.result = "loaded" /\ AsDicts(entries) = disk.entries
        ELSE IF op.ignore
        THEN op.result = "loaded" /\ AsDicts(entries) = disk.entries
        ELSE op.result = "checksum mismatch" /\ session = "closed"

\* a load of an edited file failed with the checksum error
C8_Witness ==
    /\ op.name = "open"
    /\ op.result = "checksum mismatch"
    /\ Edited
    /\ session = "closed"

\* the same edit, loaded under ignore_checksum
C8_WitnessIgnored ==
    /\ op.name = "open"
    /\ op.result = "loaded"
    /\ op.ignore
    /\ Edited
    /\ ~IsReordering(disk.entries, disk.orig)

\* every path resolves, and some file that is not padding is missing or is
\* not a regular file
MatchNotOk ==
    /\ \A i \in 1..Len(files) : Resolve(files[i].path, strip).err = "none"
    /\ \E i \in 1..Len(files) :
          /\ ~IsPadding(Resolve(files[i].path, strip).path)
          /\ fsx[i].kind # "file"

\* every path resolves, and every file that is not padding is a regular file
MatchOk ==
    \A i \in 1..Len(files) :
        /\ Resolve(files[i].path, strip).err = "none"
        /\ IsPadding(Resolve(files[i].path, strip).path) \/ fsx[i].kind = "file"

\* C9: verify_pieces on a layout whose match check is not ok returns False at
\* once: no handle opened, no byte read, no piece hashed, the bad-piece and
\* bad-byte counters untouched.
C9_FailsFastWithoutReading ==
    (vpc # "idle" /\ MatchNotOk) =>
        /\ vpc = "done"
        /\ ret = "False"
        /\ reader = NewReader
        /\ bytes_read = 0
        /\ hashed = <<>>
        /\ piece_idx = 0
        /\ bad_pc = 0
        /\ bad_sz = 0

\* the call returned False for a layout of two files, the second one missing
C9_Witness ==
    /\ vpc = "done"
    /\ ret = "False"
    /\ Len(files) = 2
    /\ fsx[1].kind = "file"
    /\ fsx[2].kind = "missing"
    /\ files[2].size > 0
    /\ ~IsPadding(Resolve(files[2].path, strip).path)

\* the bytes the scan puts together for a piece
PieceData(idx) ==
    Truncate(ReadRefs(files, fsx, strip,
                      get_piece_refs(files, idx * piece_length,
                                     piece_size(files, piece_length, idx)),
                      1,
                      [err |-> "none", buf |-> <<>>, rd |-> NewReader,
                       call |-> NoRead, disk_bytes |-> 0]).buf,
             piece_size(files, piece_length, idx))

Mismatching ==
    {idx \in 0..(pc(files, piece_length) - 1) :
        Sha1(PieceData(idx)) # hash_for_piece(files, piece_length, idx)}

RECURSIVE SumSizes(_)
SumSizes(S) ==
    IF S = {} THEN 0
    ELSE LET idx == CHOOSE x \in S : TRUE
         IN piece_size(files, piece_length, idx) + SumSizes(S \ {idx})

\* C10: with the match check ok and no read raising, the scan hashes every
\* piece 0 .. pc-1 once, in increasing order, whatever the comparisons say;
\* the bad-piece count is the number of mismatching pieces, the bad-byte
\* count the sum of their sizes, and the call returns True exactly when the
\* bad-piece count is zero.
C10_FullScan ==
    /\ vpc = "scan" =>
          /\ hashed = [k \in 1..piece_idx |-> k - 1]
          /\ piece_idx <= pc(files, piece_length)
          /\ bad_pc = Cardinality({idx \in Mismatching : idx < piece_idx})
          /\ bad_sz = SumSizes({idx \in Mismatching : idx < piece_idx})
    /\ (vpc = "done" /\ MatchOk) =>
          /\ hashed = [k \in 1..pc(files, piece_length) |-> k - 1]
          /\ bad_pc = Cardinality(Mismatching)
          /\ bad_sz = SumSizes(Mismatching)
          /\ ret = (IF bad_pc = 0 THEN "True" ELSE "False")

\* a scan of three pieces or more went on past a bad first piece and
\* returned False
C10_Witness ==
    /\ vpc = "done"
    /\ ret = "False"
    /\ Len(hashed) >= 3
    /\ 0 \in Mismatching
    /\ bad_pc < Len(hashed)

\* C18: every record emitted by get_piece_refs has a range of length at
\* least 1, whatever the file list, zero-size files inside the piece span
\* included.
C18_NonEmptyRanges ==
    call # NoCall =>
        \A k \in 1..Len(refs) : refs[k].stop - refs[k].start >= 1

\* the byte on disk at stream position p, for files as long as declared
DiskByte(p) ==
    LET i == FileAt(files, p)
    IN fsx[i].data[p - files[i].offset + 1]

\* the stream positions whose byte on disk is not the torrent's byte
Changed == {p \in 0..(sz(files) - 1) : DiskByte(p) # ExpectedByte(files, p)}

\* every file is a readable regular file of its declared size, read from
\* disk, and exactly one byte on disk differs from the torrent's
OneByteChanged ==
    /\ MatchOk
    /\ \A i \in 1..Len(files) :
          /\ ~IsPadding(Resolve(files[i].path, strip).path)
          /\ fsx[i].kind = "file" /\ fsx[i].readable /\ ~fsx[i].io_error
          /\ Len(fsx[i].data) = files[i].size
    /\ Cardinality(Changed) = 1

\* the byte span of piece idx contains stream position p
Covers(idx, p) ==
    /\ idx * piece_length <= p
    /\ p < idx * piece_length + piece_size(files, piece_length, idx)

\* C11: with one byte changed on disk, the scan flags a piece as bad (counts
\* it and its size) exactly when the piece's byte span contains the stream
\* position of that byte, and flags no other piece.
C11_OnlyCoveringPiecesBad ==
    [][(vpc = "scan" /\ piece_idx < pc(files, piece_length) /\ OneByteChanged)
          => /\ vpc' = "scan"
             /\ piece_idx' = piece_idx + 1
             /\ IF \E p \in Changed : Covers(piece_idx, p)
                THEN /\ bad_pc' = bad_pc + 1
                     /\ bad_sz' = bad_sz + piece_size(files, piece_length,
                                                      piece_idx)
                ELSE /\ bad_pc' = bad_pc
                     /\ bad_sz' = bad_sz]_vars

\* two files and two pieces, piece 0 covering all of the first file and the
\* start of the second; a byte of the second file inside piece 0 is changed:
\* the scan ended with piece 0 the only bad piece
C11_Witness ==
    /\ vpc = "done"
    /\ OneByteChanged
    /\ Len(files) = 2
    /\ files[1].size > 0
    /\ files[1].size < piece_length
    /\ files[2].offset + files[2].size > piece_length
    /\ \E p \in Changed : p >= files[2].offset /\ Covers(0, p)
    /\ Len(hashed) = 2
    /\ bad_pc = 1
    /\ bad_sz = piece_length
    /\ ret = "False"

\* some read of piece idx asks a readable file for bytes past its end on disk
ShortReadIn(idx) ==
    LET rs == get_piece_refs(files, idx * piece_length,
                             piece_size(files, piece_length, idx))
    IN /\ \A i \in 1..Len(files) :
             \/ IsPadding(Resolve(files[i].path, strip).path)
             \/ fsx[i].readable /\ ~fsx[i].io_error
       /\ \E k \in 1..Len(rs) :
             /\ ~IsPadding(Resolve(files[rs[k].file].path, strip).path)
             /\ Len(fsx[rs[k].file].data) < rs[k].stop

\* C12: a read that obtains fewer bytes than its range asks for is a fatal
\* error of the verify call: the call raises, the piece is not hashed and
\* not counted as bad.
C12_ShortReadIsFatal ==
    [][(vpc = "scan" /\ piece_idx < pc(files, piece_length)
            /\ ShortReadIn(piece_idx))
          => /\ vpc' = "raised"
             /\ hashed' = hashed
             /\ bad_pc' = bad_pc
             /\ bad_sz' = bad_sz]_vars

\* the file handles the reader's cache refers to
CachedHandles(rd) == {rd.cache[k].fh : k \in 1..Len(rd.cache)}

\* C13: every file handle opened during a verify call is closed when the
\* call has ended, whether it returned or raised; while the scan runs, the
\* handles still open are the ones the cache refers to (an evicted handle
\* is closed when it is dropped), so that teardown reaches all of them.
C13_NoHandleLeftOpen ==
    /\ reader.handles \subseteq 1..reader.opens
    /\ vpc = "scan" => reader.handles = CachedHandles(reader)
    /\ vpc \in {"done", "raised"} => reader.handles = {}

\* a read raised in mid-scan, after two files had been opened
C13_Witness ==
    /\ vpc = "raised"
    /\ ret = "read failed"
    /\ reader.opens >= 2
    /\ Len(reader.cache) >= 2

\* a scan over more files than the budget returned, some handles having
\* been closed by eviction and the others by teardown
C13_WitnessEvicted ==
    /\ vpc = "done"
    /\ reader.opens > max_open_files
    /\ Len(reader.cache) < reader.opens
    /\ Len(reader.cache) > 0

\* the number of file handles the reader holds open
OpenHandles(rd) == Cardinality(rd.handles)

\* C14 as stated: whatever the reads, the reader holds at most
\* max_open_files (32) file handles open.
C14_WithinBudget == OpenHandles(reader) <= max_open_files

\* C14 as amended: the open handles are those of the cached paths; a read
\* adds at most one open handle and closes at most four (so the number falls
\* by at most three), and closes none while no more than max_open_files are
\* cached.
C14_OpenHandlesFollowCache ==
    [][/\ reader'.handles = CachedHandles(reader')
       /\ OpenHandles(reader') = Len(reader'.cache)
       /\ OpenHandles(reader') <= OpenHandles(reader) + 1
       /\ OpenHandles(reader') >= OpenHandles(reader) - 3
       /\ Len(reader.cache) <= max_open_files
             => reader.handles \subseteq reader'.handles]_vars

\* two reads of files not read before, on a reader that held max_open_files
\* busy handles, left two handles more than the budget open
C14_Witness ==
    /\ rd_call.n = 2
    /\ OpenHandles(reader) = max_open_files + 2
    /\ Len(reader.cache) = max_open_files + 2

\* the match check of the call returned its result without failing fast
FailedFast == vpc = "done" /\ hashed = <<>>

\* C15: the match check puts the path of every declared file that is not
\* padding in exactly one of found, missing, error: missing when nothing is
\* at the resolved path, error when something that is not a regular file
\* is, found otherwise; the three sets are pairwise disjoint, and the check
\* is ok (the call goes on to scan) exactly when missing and error are empty.
C15_Classification ==
    matched.err = "none" =>
        /\ \A i \in 1..Len(files) :
              ~IsPadding(Resolve(files[i].path, strip).path) =>
                 /\ files[i].path \in matched.missing <=> fsx[i].kind = "missing"
                 /\ files[i].path \in matched.error
                       <=> fsx[i].kind \notin {"missing", "file"}
                 /\ files[i].path \in matched.found <=> fsx[i].kind = "file"
        /\ matched.found \cap matched.missing = {}
        /\ matched.found \cap matched.error = {}
        /\ matched.missing \cap matched.error = {}
        /\ (matched.missing = {} /\ matched.error = {}) <=> ~FailedFast

\* a check of two files found the first and put the second, a directory,
\* in error, and the call failed fast
C15_Witness ==
    /\ FailedFast
    /\ Len(files) = 2
    /\ fsx[2].kind = "dir"
    /\ matched.found = {files[1].path}
    /\ matched.error = {files[2].path}
    /\ matched.missing = {}

\* path without its first n parts
Stripped(path, n) == [k \in 1..(Len(path) - n) |-> path[k + n]]

\* some declared path has no more parts than are to be stripped
SomePathTooShort ==
    strip > 0 /\ \E i \in 1..Len(files) : Len(files[i].path) <= strip

\* C16: a declared path with more parts than strip_components is looked for
\* and read at the path without its first strip_components parts; if some
\* declared path, wherever it is in the file list, has strip_components parts
\* or fewer, the match check raises the too-short error and the call ends
\* with no MatchFilesResult, nothing opened and nothing read.
C16_StripComponents ==
    /\ rd_call.n > 0 =>
          \E i \in 1..Len(files) :
              /\ Len(files[i].path) > strip
              /\ rd_call.key = Stripped(files[i].path, strip)
    /\ (vpc # "idle" /\ SomePathTooShort) =>
          /\ vpc = "raised"
          /\ ret = "too short"
          /\ matched = NoMatch
          /\ reader = NewReader
          /\ rd_call = NoRead
    /\ (vpc # "idle" /\ ~SomePathTooShort) =>
          /\ matched.err = "none"
          /\ ret # "too short"

\* the second of two declared paths was too short to strip, the first was
\* not: the call raised and no result was returned for the first either
C16_Witness ==
    /\ vpc = "raised"
    /\ ret = "too short"
    /\ strip = 1
    /\ Len(files) = 2
    /\ Len(files[1].path) = 2
    /\ Len(files[2].path) = 1
    /\ fsx[1].kind = "file"
    /\ matched = NoMatch

\* a file declared as root/<marker-free name> was read at <name>
C16_WitnessStripped ==
    /\ strip = 1
    /\ rd_call.n > 0
    /\ rd_call.key = <<FileName(1)>>
    /\ files[1].path = <<"root", FileName(1)>>

\* the path of file i, after stripping, begins with the padding marker
PaddingFile(i) ==
    /\ Len(files[i].path) > strip
    /\ files[i].path[strip + 1] = PaddingMarker

\* the last piece put together, when no read of it came back short
WholePiece ==
    /\ vpc \in {"scan", "done"}
    /\ piece_idx > 0
    /\ Len(buf) = piece_size(files, piece_length, piece_idx - 1)

\* C17: a declared file whose stripped path begins with .____padding_file
\* is in none of found, missing, error; it is never opened and no read call
\* names it; each of its ranges puts as many zero bytes as the range is long
\* in the piece buffer; and the bytes read from disk in a whole scan are
\* those of the other files.
C17_PaddingNeverRead ==
    \A i \in 1..Len(files) : PaddingFile(i) =>
        /\ files[i].path \notin
              (matched.found \cup matched.missing \cup matched.error)
        /\ Stripped(files[i].path, strip) \notin CacheKeys(reader)
        /\ rd_call.n > 0 => rd_call.key # Stripped(files[i].path, strip)
        /\ WholePiece =>
              \A k \in 1..Len(buf) :
                  FileAt(files, (piece_idx - 1) * piece_length + k - 1) = i
                      => buf[k] = 0
        /\ (vpc = "done" /\ ~FailedFast) =>
              bytes_read <= sz(files) - files[i].size

\* a scan of two files, the first one a padding file after stripping one
\* part, returned True having read the second file's bytes only
C17_Witness ==
    /\ vpc = "done"
    /\ ret = "True"
    /\ strip = 1
    /\ Len(files) = 2
    /\ PaddingFile(1)
    /\ files[1].size > 0
    /\ files[2].size > 0
    /\ bytes_read = files[2].size
    /\ reader.opens = 1

\* the cached paths in insertion order
Keys(rd) == [k \in 1..Len(rd.cache) |-> rd.cache[k].key]

\* the entries of the cache that an eviction looks at and finds idle
IdleAmongFirstFour(rd) ==
    {k \in 1..Len(rd.cache) : k <= 4 /\ rd.cache[k].usage <= 0}

\* C19: a read that hits the cache closes and drops nothing; a read that
\* misses while at most max_open_files handles are cached closes and drops
\* nothing either; a read that misses while more are cached closes and
\* drops exactly the entries among the first four, in insertion order,
\* whose count is not positive, and leaves every other entry in place and
\* open; in each case a read that misses then opens the new file.
C19_Eviction ==
    [][rd_call'.n = rd_call.n + 1 =>
        LET key == rd_call'.key
            miss == key \notin CacheKeys(reader)
            gone == IF miss /\ Len(reader.cache) > max_open_files
                    THEN IdleAmongFirstFour(reader)
                    ELSE {}
            kept == KeepAt(reader.cache, (1..Len(reader.cache)) \ gone)
        IN /\ reader.handles \ reader'.handles
                 = {reader.cache[k].fh : k \in gone}
           /\ ~miss => /\ Keys(reader') = Keys(reader)
                        /\ reader'.handles = reader.handles
                        /\ reader'.opens = reader.opens
           /\ miss => /\ SubSeq(reader'.cache, 1, Len(reader'.cache) - 1) = kept
                       /\ Len(reader'.cache) = Len(kept) + 1
                       /\ reader'.cache[Len(reader'.cache)].key = key
                       /\ reader'.opens = reader.opens + 1
                       /\ reader'.handles \ reader.handles = {reader'.opens}
                       /\ reader'.cache[Len(reader'.cache)].fh = reader'.opens
      ]_vars

\* a second file not read before was opened while max_open_files + 1 were
\* cached: of the first four entries the idle ones were closed, a busy one
\* is still first in the cache, and the idle fifth entry was left alone
C19_Witness ==
    /\ rd_call.n = 2
    /\ reader.opens = max_open_files + 2
    /\ Len(reader.cache) = max_open_files
    /\ reader.cache[1].usage > 0
    /\ reader.cache[1].fh \in reader.handles
    /\ \E k \in 1..Len(reader.cache) :
          /\ reader.cache[k].key = CacheKey(5)
          /\ reader.cache[k].usage <= 0
          /\ reader.cache[k].fh \in reader.handles

\* the entry of the cache for key
EntryOf(rd, key) == rd.cache[CacheIndex(rd, key)]

\* C20: a read that opens a path (for the first time or again after an
\* eviction) sets the path's count to 1, a read that hits the cache adds
\* nothing to it, and either read then takes one off when its range ends at
\* or past the file size recorded at the open; no other path's count changes.
C20_ReferenceCount ==
    [][rd_call'.n = rd_call.n + 1 =>
        LET key == rd_call'.key
            miss == key \notin CacheKeys(reader)
            e == EntryOf(reader', key)
            before == IF miss THEN 1 ELSE EntryOf(reader, key).usage
            atEnd == rd_call'.stop >= e.size
        IN /\ key \in CacheKeys(reader')
           /\ miss => e.size = Len(CacheFile.data)
           /\ ~miss => e.size = EntryOf(reader, key).size
           /\ e.usage = before - (IF atEnd THEN 1 ELSE 0)
           /\ \A k \in CacheKeys(reader) \cap CacheKeys(reader') :
                 k # key => EntryOf(reader', k).usage = EntryOf(reader, k).usage
      ]_vars

\* the first file, read to its end before, was evicted and then opened
\* again by a read of part of it: it is last in the cache with count 1
C20_Witness ==
    /\ rd_call.n = 3
    /\ rd_call.key = CacheKey(1)
    /\ rd_call.stop < MaxFileSize
    /\ reader.cache[Len(reader.cache)].key = CacheKey(1)
    /\ reader.cache[Len(reader.cache)].fh > max_open_files
    /\ reader.cache[Len(reader.cache)].usage = 1

\* a file read to its end twice has a count below zero
C20_WitnessBelowZero ==
    /\ rd_call.n = 2
    /\ rd_call.key = CacheKey(1)
    /\ EntryOf(reader, CacheKey(1)).fh = 1
    /\ EntryOf(reader, CacheKey(1)).usage < 0

\* every file read from disk is a regular file of exactly its declared size
ExactSizes ==
    \A i \in 1..Len(files) :
        \/ PaddingFile(i)
        \/ /\ Len(files[i].path) > strip \/ strip = 0
           /\ fsx[i].kind = "file"
           /\ Len(fsx[i].data) = files[i].size

\* the stream position up to which the scan has read
Scanned == Min(piece_idx * piece_length, sz(files))

\* the files read from disk for the pieces scanned so far
Touched ==
    {i \in 1..Len(files) :
        /\ ~PaddingFile(i)
        /\ \E j \in 0..(piece_idx - 1) :
              \E k \in 1..Len(get_piece_refs(files, j * piece_length,
                                              piece_size(files, piece_length, j))) :
                  get_piece_refs(files, j * piece_length,
                                 piece_size(files, piece_length, j))[k].file = i}

\* C21: in a scan over files that have exactly their declared sizes on disk,
\* every cached count is 1 until the read that takes the file's last byte
\* and 0 from then on, never below; a file that is no longer cached has been
\* read to its end; and every file read so far was opened exactly once.
C21_CountsInScan ==
    (vpc \in {"scan", "done"} /\ ~FailedFast /\ ExactSizes) =>
        /\ \A k \in 1..Len(reader.cache) : reader.cache[k].usage \in {0, 1}
        /\ \A i \in Touched :
              LET key == Stripped(files[i].path, strip)
                  whole == files[i].offset + files[i].size <= Scanned
              IN IF key \in CacheKeys(reader)
                 THEN EntryOf(reader, key).usage = (IF whole THEN 0 ELSE 1)
                 ELSE whole
        /\ CacheKeys(reader) \subseteq
              {Stripped(files[i].path, strip) : i \in Touched}
        /\ reader.opens = Cardinality(Touched)

\* a scan over more files than the budget, all of their declared sizes,
\* returned True after the first four files had been evicted
C21_Witness ==
    /\ vpc = "done"
    /\ ret = "True"
    /\ ExactSizes
    /\ reader.opens > max_open_files + 1
    /\ Len(reader.cache) = reader.opens - 4

\* a file that lies in two pieces is cached with count 1 between them
C21_WitnessBusy ==
    /\ vpc = "scan"
    /\ ExactSizes
    /\ piece_idx = 1
    /\ Len(reader.cache) = 1
    /\ reader.cache[1].usage = 1
    /\ files[1].size > piece_length

\* the entry objects a load makes of the file's entries
Loaded(doc) == [i \in 1..Len(doc.entries) |-> FromDict(doc.entries[i])]

\* a session is open on a file whose checksum is not that of its entries
\* (it was loaded with ignore_checksum=True)
OpenOnStaleFile ==
    /\ session = "open"
    /\ disk.exists
    /\ disk.checksum # Checksum(Loaded(disk))

\* C22: a load with ignore_checksum=True of a file whose checksum does not
\* match its entries leaves the session with the checksum recomputed from
\* the loaded entries; from then on a flush (or the flush of the exit) with
\* the entries' checksum unchanged writes nothing and the file keeps its
\* mismatching checksum, and a step that does change the file is a flush
\* after a checksum-changing mutation and writes the current entries with
\* their own checksum.
C22_IgnoredMismatch ==
    [][/\ (op'.name = "open" /\ op'.result = "loaded"
              /\ disk.checksum # Checksum(Loaded(disk)))
          => /\ op'.ignore
             /\ entries' = Loaded(disk)
             /\ checksum' = Checksum(entries')
             /\ checksum' # disk.checksum
       /\ (OpenOnStaleFile /\ op'.name \in {"flush", "exit"})
          => /\ Checksum(entries) = checksum
                   => disk' = disk /\ op'.result = "no changes"
             /\ disk' # disk
                   => /\ Checksum(entries) # checksum
                      /\ op'.result = "written"
                      /\ disk'.entries = AsDicts(entries)
                      /\ disk'.checksum = Checksum(entries)
                      /\ disk'.checksum = Checksum(Loaded(disk'))
       /\ (OpenOnStaleFile /\ op'.name \notin {"flush", "exit"})
          => disk' = disk]_vars

\* a flush in a session opened on a mismatching file wrote nothing: the
\* file still has its mismatching checksum
C22_Witness ==
    /\ OpenOnStaleFile
    /\ op.name = "flush"
    /\ op.result = "no changes"
    /\ checksum = Checksum(entries)
    /\ checksum # disk.checksum
    /\ UniqueIds(entries)

\* the session ends with entries whose checksum is not the last-known one
ExitWithChanges == op'.name = "exit" /\ Checksum(entries) # checksum

\* C23 as stated: when a session is left, with or without an exception,
\* right after an upsert or an in-place change of an entry that changed the
\* checksum, the entries are written to the store file.
C23_ExitWritesChanges ==
    [][(ExitWithChanges /\ op.name \in {"upsert", "set"})
          => /\ disk'.exists
             /\ disk'.entries = AsDicts(entries)
             /\ disk'.checksum = Checksum(entries)]_vars

\* C23 as amended: when a session is left, with or without an exception, a
\* flush is attempted: entries whose checksum changed are written to the
\* store file if no two of them share an id; if two do, the flush ends in
\* the duplicate-entry error and the file is left as it was; unchanged
\* entries are not written.
C23_ExitWritesChangesUnlessDuplicate ==
    [][op'.name = "exit"
          => /\ session' = "closed"
             /\ (ExitWithChanges /\ UniqueIds(entries))
                   => /\ op'.result = "written"
                      /\ disk'.exists
                      /\ disk'.entries = AsDicts(entries)
                      /\ disk'.checksum = Checksum(entries)
             /\ (ExitWithChanges /\ ~UniqueIds(entries))
                   => /\ op'.result = "duplicate entry"
                      /\ disk' = disk
             /\ ~ExitWithChanges
                   => /\ op'.result = "no changes"
                      /\ disk' = disk]_vars

\* a session whose body ended with an exception was left and the entries,
\* one of them verified in the session, were written
C23_Witness ==
    /\ op.name = "exit"
    /\ op.exc
    /\ op.result = "written"
    /\ session = "closed"
    /\ AsWritten
    /\ \E i \in 1..Len(disk.entries) : disk.entries[i].nx.internal.ready

\* the stored entry with the id of e
Stored(es, e) == es[FirstIndex(es, e.id)]

\* C24: a verification pass leaves the number, the ids and the order of the
\* entries alone and changes no entry but the one verified; that entry is
\* unchanged when the match check is not ok, gets a new last_verified and
\* keeps its ready flag when piece verification fails, and gets a new
\* last_verified and ready = true when it passes; a ready flag that is true
\* stays true.
C24_VerifyPass ==
    [][op'.name = "verify" =>
        LET old == op'.arg
            new == Stored(entries', old)
        IN /\ Len(entries') = Len(entries)
           /\ \A k \in 1..Len(entries) :
                 /\ entries'[k].id = entries[k].id
                 /\ entries[k] # old => entries'[k] = entries[k]
                 /\ entries[k].nx.internal.ready => entries'[k].nx.internal.ready
           /\ op'.result \in {"not ok", "raised"} => entries' = entries
           /\ op'.result = "failed" =>
                 /\ new.nx.internal.ready = old.nx.internal.ready
                 /\ \E t \in Times : new.nx.internal.last_verified = Some(t)
                 /\ new = [old EXCEPT !.nx.internal.last_verified =
                                          new.nx.internal.last_verified]
           /\ op'.result = "passed" =>
                 /\ new.nx.internal.ready
                 /\ \E t \in Times : new.nx.internal.last_verified = Some(t)
                 /\ new = [old EXCEPT !.nx.internal.last_verified =
                                          new.nx.internal.last_verified,
                                      !.nx.internal.ready = TRUE]
      ]_vars

\* piece verification of a ready entry that had never been verified failed:
\* the entry is still ready and has a last_verified time, next to a second
\* entry
C24_Witness ==
    /\ op.name = "verify"
    /\ op.result = "failed"
    /\ op.arg.nx.internal.ready
    /\ op.arg.nx.internal.last_verified = None
    /\ Len(entries) = 2
    /\ Stored(entries, op.arg).nx.internal.ready
    /\ Stored(entries, op.arg).nx.internal.last_verified # None

====
